---- MODULE Spec2Model ----
(***************************************************************************)
(* Model of src/src/main.rs: the sprite demo's main loop (MainMenu / Demo), *)
(* the player's movement state machine and the animation timers.           *)
(*                                                                         *)
(* Numbers.  The program computes in f32.  The model uses fixed point:     *)
(*   time      in centiseconds            (1 s      = 100)                 *)
(*   velocity  in 1/100 pixel per second  (1 px/s   = 100)                 *)
(*   position  in 1/10000 pixel           (1 px     = 10000)               *)
(* so that pos += vel * dt and vel += gravity * dt are exact.  The two     *)
(* scalings vel.x *= 0.88 and vel.y *= 0.45 truncate toward zero at the    *)
(* 1/100 px/s digit.                                                       *)
(***************************************************************************)
EXTENDS Integers, FiniteSets, Sequences, TLC

\* ---- bounds of the exploration -----------------------------------------
\* at most MaxKeys key signals are active in one frame
MaxKeys == 2
\* at most MaxKeyEvents key signals occur in one run of the program, the
\* Enter key (which starts a run and is not read in Demo) not counted
MaxKeyEvents == 2
\* frames are explored while the time integrated by the Demo ticks, the
\* frame's own time included, is <= MaxElapsed
MaxElapsed == 65
\* while a jump runs undisturbed (JumpSpec), frames are explored while the
\* integrated time, the frame's own time included, is <= MaxJumpElapsed
MaxJumpElapsed == 200
\* frame times get_frame_time() may return (centiseconds): a zero frame and
\* two stalled frames of 0.25 s and 0.4 s, each long enough to fall from a
\* jump to more than 100 px below the ground line in one tick
DtSet == {0, 25, 40}

\* ---- fixed-point scales -------------------------------------------------
PX == 100 * 100
VEL == 10 * 10

\* ---- environment: window size (screen_width(), screen_height()) ---------
ScreenW == 800
ScreenH == 600

\* ---- program constants --------------------------------------------------
scale == 6
sprite_w == 32 * scale * PX
sprite_h == 32 * scale * PX
screen_w == ScreenW * PX
ground_y == (ScreenH * PX * 3) \div 4 - sprite_h
start_x == (ScreenW * PX) \div 2 - sprite_w \div 2
gravity == 2200 * VEL
walk_speed == 250 * VEL
run_speed == 450 * VEL
jump_speed == 900 * VEL
dash_speed == 1200 * VEL
dash_stop == 80 * VEL
pose_vy == 50 * VEL

GameStates == {"MainMenu", "Demo"}
MoveStates == {"Idle", "Walk", "Run", "Jump", "Dash"}
JumpPhases == {"Takeoff", "Air", "Landing"}
AnimIds == {"Idle", "Walk", "Run", "Dash", "JumpTakeoff", "JumpRise",
            "JumpApex", "JumpFall", "JumpLand"}

\* key signals read by the loop body: is_key_pressed for Enter, Escape, I,
\* W, R, J, D; is_key_down for Left, Right; is_key_released for J
Keys == {"Enter", "Escape", "Left", "Right", "I", "W", "R", "J", "D", "JUp"}
MenuKeys == {"Enter", "Escape"}

KeySets == {ks \in SUBSET Keys : Cardinality(ks) <= MaxKeys}

\* the frames explored: every key set with every frame time, except that a
\* frame with Enter or Escape active has frame time 0 (the MainMenu branch
\* and the ESC handling never read dt, and the Demo tick never reads Enter)
Inputs == {i \in [keys : KeySets, dt : DtSet] : i.keys \cap MenuKeys # {} => i.dt = 0}
NoInput == [keys |-> {}, dt |-> 0]

\* the frames that may still be delivered when n counted key signals are left
\* (Enter is not counted)
InputsWithin ==
    [n \in 0..MaxKeyEvents |->
        {i \in Inputs : Cardinality(i.keys \ {"Enter"}) <= n}]

is_key_pressed(in, k) == k \in in.keys
is_key_down(in, k) == k \in in.keys
is_key_released(in, k) == k \in in.keys

\* ---- SpriteAnim ---------------------------------------------------------
\* durations of the frames of each animation (centiseconds) and its mode
durations(id) ==
    CASE id = "Idle" -> <<20, 20, 20, 20, 20>>
      [] id = "Walk" -> <<12, 12, 12, 12>>
      [] id = "Run" -> <<8, 8, 8, 8>>
      [] id = "Dash" -> <<6, 6, 6>>
      [] id = "JumpTakeoff" -> <<6, 6, 6>>
      [] id = "JumpRise" -> <<100>>
      [] id = "JumpApex" -> <<100>>
      [] id = "JumpFall" -> <<100>>
      [] id = "JumpLand" -> <<6, 6, 6>>

mode(id) == IF id \in {"JumpTakeoff", "JumpLand"} THEN "Once" ELSE "Loop"

RECURSIVE SumSeq(_)
SumSeq(s) == IF s = <<>> THEN 0 ELSE Head(s) + SumSeq(Tail(s))

\* total_duration: the sum of the durations; the .max(0.0001) floor is below
\* one centisecond and every sum here is at least 18
total_duration(id) == SumSeq(durations(id))

is_finished(a, id) == mode(id) = "Once" /\ a[id] >= total_duration(id)

\* update(dt) of one animation
update(a, id, dt) == [a EXCEPT ![id] = a[id] + dt]

\* restart() of one animation
restart(a, id) == [a EXCEPT ![id] = 0]

\* ---- Player -------------------------------------------------------------
InitPlayer ==
    [pos |-> [x |-> start_x, y |-> ground_y],
     vel |-> [x |-> 0, y |-> 0],
     facing |-> 1,
     on_ground |-> TRUE,
     ground_mode |-> "Idle",
     state |-> "Idle",
     jump_phase |-> "Air"]

InitAnims == [id \in AnimIds |-> 0]

\* game_state, player, prev_anim, anims : the locals of main
\* input       : the key state and frame time of the current frame
\* pc          : where the loop is ("await", "body", "exited")
\* frame_state : game_state at the moment the current frame began
\* elapsed     : the time integrated by Demo ticks so far
\* key_events  : the number of key signals delivered so far, Enter not
\*               counted
VARIABLES game_state, player, prev_anim, anims, input, pc, frame_state,
          elapsed, key_events

vars == <<game_state, player, prev_anim, anims, input, pc, frame_state,
          elapsed, key_events>>

Init ==
    /\ game_state = "MainMenu"
    /\ player = InitPlayer
    /\ prev_anim = "Idle"
    /\ anims = InitAnims
    /\ input = NoInput
    /\ pc = "await"
    /\ frame_state = "MainMenu"
    /\ elapsed = 0
    /\ key_events = 0

\* ---- helpers of the fixed-point arithmetic ------------------------------
Abs(v) == IF v < 0 THEN -v ELSE v

\* v * (pct / 100), truncated toward zero
Scaled(v, pct) == IF v < 0 THEN -((-v * pct) \div 100) ELSE (v * pct) \div 100

\* The statements of the loop body run in sequence, each on the world left
\* by the one before: {F(v) : v \in {x}} is the one world statement F leaves
\* when run on the world x, and Only takes it out of the set.
Only(S) == CHOOSE r \in S : TRUE

\* ---- restart_if_changed / anim_for --------------------------------------
\* w is the mutable world of the loop body: [p: Player, a: AnimSet timers,
\* prev: prev_anim]
anim_for(p) ==
    CASE p.state = "Dash" -> "Dash"
      [] p.state = "Jump" ->
            (CASE p.jump_phase = "Takeoff" -> "JumpTakeoff"
               [] p.jump_phase = "Landing" -> "JumpLand"
               [] p.jump_phase = "Air" ->
                     IF p.vel.y < -pose_vy THEN "JumpRise"
                     ELSE IF p.vel.y > pose_vy THEN "JumpFall"
                     ELSE "JumpApex")
      [] OTHER ->
            (CASE p.ground_mode = "Idle" -> "Idle"
               [] p.ground_mode = "Walk" -> "Walk"
               [] p.ground_mode = "Run" -> "Run"
               [] OTHER -> "Idle")

restart_if_changed(w, next) ==
    IF w.prev = next THEN w
    ELSE [w EXCEPT !.prev = next, !.a = restart(w.a, next)]

\* ---- Demo tick, stage by stage (main.rs 389-570) --------------------------
\* Facing direction
Facing(w, in) ==
    IF is_key_down(in, "Left") THEN [w EXCEPT !.p.facing = -1]
    ELSE IF is_key_down(in, "Right") THEN [w EXCEPT !.p.facing = 1]
    ELSE w

\* mutant of GroundModeKey: the test for Dash and Jump is missing
GroundModeKey_Unguarded(w, in, key, m) ==
    IF is_key_pressed(in, key)
    THEN [w EXCEPT !.p.ground_mode = m,
                   !.p.state = IF w.p.on_ground THEN m ELSE w.p.state]
    ELSE w

\* one ground-mode selection key (I, W or R) selecting mode m
GroundModeKey(w, in, key, m) ==
    IF is_key_pressed(in, key)
    THEN [w EXCEPT !.p.ground_mode = m,
                   !.p.state = IF w.p.on_ground /\ w.p.state # "Dash" /\ w.p.state # "Jump"
                               THEN m ELSE w.p.state]
    ELSE w

GroundModeKeys(w, in) ==
    Only({GroundModeKey(c, in, "R", "Run") : c \in
         {GroundModeKey(b, in, "W", "Walk") : b \in
         {GroundModeKey(w, in, "I", "Idle")}}})

\* mutant of JumpStarts: the on_ground test is missing
JumpStarts_Airborne(w, in) == is_key_pressed(in, "J")

\* the condition under which a jump starts
JumpStarts(w, in) == is_key_pressed(in, "J") /\ w.p.on_ground

\* Jump start (phase = Takeoff)
JumpStart(w, in) ==
    IF JumpStarts(w, in)
    THEN [w EXCEPT !.p.state = "Jump",
                   !.p.jump_phase = "Takeoff",
                   !.p.on_ground = FALSE,
                   !.p.vel.y = -jump_speed,
                   !.a = restart(w.a, "JumpTakeoff")]
    ELSE w

\* Dash start (transient)
DashStart(w, in) ==
    IF is_key_pressed(in, "D")
    THEN [w EXCEPT !.p.state = "Dash",
                   !.p.vel.x = w.p.facing * dash_speed,
                   !.a = restart(w.a, "Dash")]
    ELSE w

\* variable jump height: releasing J while rising cuts vel.y
JumpCut(w, in) ==
    IF is_key_released(in, "JUp") /\ w.p.state = "Jump" /\ w.p.vel.y < 0
    THEN [w EXCEPT !.p.vel.y = Scaled(w.p.vel.y, 45)]
    ELSE w

\* the whole key handling of a Demo tick
AfterInput(w, in) ==
    Only({JumpCut(e, in) : e \in
         {DashStart(d, in) : d \in
         {JumpStart(c, in) : c \in
         {GroundModeKeys(b, in) : b \in
         {Facing(w, in)}}}}})

air_speed(m) ==
    CASE m = "Run" -> (run_speed * 6) \div 10
      [] m = "Walk" -> (walk_speed * 7) \div 10
      [] OTHER -> (walk_speed * 5) \div 10

ground_speed(m) ==
    CASE m = "Idle" -> 0
      [] m = "Walk" -> walk_speed
      [] m = "Run" -> run_speed
      [] OTHER -> 0

\* mutant of Horizontal: the ground branch forgets the facing factor
Horizontal_NoFacing(w) ==
    CASE w.p.state = "Dash" ->
            LET vx == Scaled(w.p.vel.x, 88) IN
            IF Abs(vx) < dash_stop
            THEN [w EXCEPT !.p.state = w.p.ground_mode,
                           !.p.vel.x = IF w.p.on_ground THEN 0 ELSE vx]
            ELSE [w EXCEPT !.p.vel.x = vx]
      [] w.p.state = "Jump" ->
            [w EXCEPT !.p.vel.x = w.p.facing * air_speed(w.p.ground_mode)]
      [] OTHER ->
            [w EXCEPT !.p.state = w.p.ground_mode,
                      !.p.vel.x = ground_speed(w.p.ground_mode)]

\* mutant of Horizontal: a dash that decays out on the ground keeps its speed
Horizontal_DashKeepsSpeed(w) ==
    CASE w.p.state = "Dash" ->
            LET vx == Scaled(w.p.vel.x, 88) IN
            IF Abs(vx) < dash_stop
            THEN [w EXCEPT !.p.state = w.p.ground_mode, !.p.vel.x = vx]
            ELSE [w EXCEPT !.p.vel.x = vx]
      [] w.p.state = "Jump" ->
            [w EXCEPT !.p.vel.x = w.p.facing * air_speed(w.p.ground_mode)]
      [] OTHER ->
            [w EXCEPT !.p.state = w.p.ground_mode,
                      !.p.vel.x = w.p.facing * ground_speed(w.p.ground_mode)]

\* Horizontal velocity logic depends on state
Horizontal(w) ==
    CASE w.p.state = "Dash" ->
            LET vx == Scaled(w.p.vel.x, 88) IN
            IF Abs(vx) < dash_stop
            THEN [w EXCEPT !.p.state = w.p.ground_mode,
                           !.p.vel.x = IF w.p.on_ground THEN 0 ELSE vx]
            ELSE [w EXCEPT !.p.vel.x = vx]
      [] w.p.state = "Jump" ->
            [w EXCEPT !.p.vel.x = w.p.facing * air_speed(w.p.ground_mode)]
      [] OTHER ->
            [w EXCEPT !.p.state = w.p.ground_mode,
                      !.p.vel.x = w.p.facing * ground_speed(w.p.ground_mode)]

\* mutant of Gravity: the airborne test is inverted
Gravity_Grounded(w, dt) ==
    IF w.p.on_ground
    THEN [w EXCEPT !.p.vel.y = w.p.vel.y + (gravity * dt) \div 100]
    ELSE w

\* Apply gravity if airborne
Gravity(w, dt) ==
    IF ~w.p.on_ground
    THEN [w EXCEPT !.p.vel.y = w.p.vel.y + (gravity * dt) \div 100]
    ELSE w

\* Integrate
Integrate(w, dt) ==
    [w EXCEPT !.p.pos.x = w.p.pos.x + w.p.vel.x * dt,
              !.p.pos.y = w.p.pos.y + w.p.vel.y * dt]

\* mutant of WrapRight: the sprite re-enters at the left screen border
WrapRight_AtZero(w) ==
    IF w.p.pos.x > screen_w THEN [w EXCEPT !.p.pos.x = 0] ELSE w

\* mutant of WrapLeft: the left exit is not wrapped
WrapLeft_Off(w) == w

\* Screen wrap (horizontal)
WrapRight(w) ==
    IF w.p.pos.x > screen_w THEN [w EXCEPT !.p.pos.x = -sprite_w] ELSE w

WrapLeft(w) ==
    IF w.p.pos.x + sprite_w < 0 THEN [w EXCEPT !.p.pos.x = screen_w] ELSE w

Wrap(w) == Only({WrapLeft(b) : b \in {WrapRight(w)}})

\* mutant of GroundCollision: > instead of >=
GroundCollision_Strict(w) ==
    IF w.p.pos.y > ground_y
    THEN [w EXCEPT !.landed = ~w.p.on_ground,
                   !.p.pos.y = ground_y,
                   !.p.vel.y = 0,
                   !.p.on_ground = TRUE]
    ELSE [w EXCEPT !.landed = FALSE, !.p.on_ground = FALSE]

\* Ground collision detection; landed is the local just_landed
GroundCollision(w) ==
    IF w.p.pos.y >= ground_y
    THEN [w EXCEPT !.landed = ~w.p.on_ground,
                   !.p.pos.y = ground_y,
                   !.p.vel.y = 0,
                   !.p.on_ground = TRUE]
    ELSE [w EXCEPT !.landed = FALSE, !.p.on_ground = FALSE]

\* Jump phase transitions: the four consecutive ifs
PhaseLanded(w) ==
    IF w.landed
    THEN [w EXCEPT !.p.jump_phase = "Landing", !.a = restart(w.a, "JumpLand")]
    ELSE w

\* mutant of PhaseAir: the airborne test is missing
PhaseAir_Grounded(w) ==
    IF w.p.jump_phase # "Takeoff"
    THEN [w EXCEPT !.p.jump_phase = "Air"]
    ELSE w

PhaseAir(w) ==
    IF ~w.p.on_ground /\ w.p.jump_phase # "Takeoff"
    THEN [w EXCEPT !.p.jump_phase = "Air"]
    ELSE w

PhaseTakeoffEnd(w) ==
    IF w.p.jump_phase = "Takeoff" /\ is_finished(w.a, "JumpTakeoff")
    THEN [w EXCEPT !.p.jump_phase = "Air"]
    ELSE w

PhaseLandingEnd(w) ==
    IF w.p.jump_phase = "Landing" /\ is_finished(w.a, "JumpLand")
    THEN [w EXCEPT !.p.state = w.p.ground_mode, !.p.jump_phase = "Air"]
    ELSE w

JumpPhaseTransitions(w) ==
    IF w.p.state = "Jump"
    THEN Only({PhaseLandingEnd(d) : d \in
              {PhaseTakeoffEnd(c) : c \in
              {PhaseAir(b) : b \in
              {PhaseLanded(w)}}}})
    ELSE w

\* mutant of Animate: the current animation's timer is not advanced
Animate_NoUpdate(w, dt) == restart_if_changed(w, anim_for(w.p))

\* restart the wanted animation if it changed, update only the current one
Animate(w, dt) ==
    LET wanted == anim_for(w.p)
        r == restart_if_changed(w, wanted)
    IN [r EXCEPT !.a = update(r.a, wanted, dt)]

\* the player after the physics up to and including integration
Integrated(w, in) ==
    Only({Integrate(d, in.dt) : d \in
         {Gravity(c, in.dt) : c \in
         {Horizontal(b) : b \in
         {AfterInput(w, in)}}}})

\* one whole Demo tick without ESC
Tick(w, in) ==
    Only({Animate(e, in.dt) : e \in
         {JumpPhaseTransitions(d) : d \in
         {GroundCollision(c) : c \in
         {Wrap(b) : b \in
         {Integrated(w, in)}}}}})

\* the world of the loop body built from the variables
World == [p |-> player, a |-> anims, prev |-> prev_anim, landed |-> FALSE]

\* ---- MainMenu: ENTER resets the player and restarts every animation ------
EnterReset(w) ==
    [w EXCEPT !.p.pos = [x |-> start_x, y |-> ground_y],
              !.p.vel = [x |-> 0, y |-> 0],
              !.p.facing = 1,
              !.p.on_ground = TRUE,
              !.p.ground_mode = "Idle",
              !.p.state = "Idle",
              !.prev = "Idle",
              !.a = [id \in AnimIds |-> 0]]

\* mutant of MenuWorld: the facing keys are read in the menu as well
MenuWorld_Facing(w, in) ==
    Facing(IF is_key_pressed(in, "Enter") THEN EnterReset(w) ELSE w, in)

\* the world after the MainMenu branch's ENTER handling
MenuWorld(w, in) == IF is_key_pressed(in, "Enter") THEN EnterReset(w) ELSE w

\* ---- the main loop --------------------------------------------------------
\* pc = "await"  : the loop is at next_frame().await
\* pc = "body"   : the loop is at the top of its body; input is the frame's
\*                 key state and frame time, constant until the next await
\* pc = "exited" : std::process::exit(0) was called

\* next_frame().await returns: a new frame's key state and frame time.
\* In Demo a frame with Enter is explored only together with Escape: the
\* Demo branch does not read Enter, the MainMenu branch reached by
\* `continue` does.
NextFrame ==
    /\ pc = "await"
    /\ input' \in {i \in InputsWithin[MaxKeyEvents - key_events] :
                     /\ elapsed + i.dt <= MaxElapsed
                     /\ (game_state = "Demo" /\ "Enter" \in i.keys) =>
                            "Escape" \in i.keys}
    /\ key_events' = key_events + Cardinality(input'.keys \ {"Enter"})
    /\ pc' = "body"
    /\ frame_state' = game_state
    /\ UNCHANGED <<game_state, player, prev_anim, anims, elapsed>>

\* loop body in GameState::MainMenu
MainMenuBody ==
    /\ pc = "body"
    /\ game_state = "MainMenu"
    /\ LET w == MenuWorld(World, input) IN
          /\ player' = w.p
          /\ anims' = w.a
          /\ prev_anim' = w.prev
    /\ game_state' = IF is_key_pressed(input, "Enter") THEN "Demo" ELSE game_state
    /\ IF is_key_pressed(input, "Escape")
       THEN pc' = "exited" /\ input' = input
       ELSE pc' = "await" /\ input' = NoInput
    /\ UNCHANGED <<frame_state, elapsed, key_events>>

\* loop body in GameState::Demo with ESC pressed: back to the menu and
\* `continue`, which starts the next iteration without next_frame().await
DemoEscape ==
    /\ pc = "body"
    /\ game_state = "Demo"
    /\ is_key_pressed(input, "Escape")
    /\ game_state' = "MainMenu"
    /\ pc' = "body"
    /\ UNCHANGED <<player, prev_anim, anims, input, frame_state, elapsed, key_events>>

\* loop body in GameState::Demo without ESC: one tick, then next_frame
DemoTick ==
    /\ pc = "body"
    /\ game_state = "Demo"
    /\ ~is_key_pressed(input, "Escape")
    /\ \E w \in {Tick(World, input)} :
          /\ player' = w.p
          /\ anims' = w.a
          /\ prev_anim' = w.prev
    /\ elapsed' = elapsed + input.dt
    /\ pc' = "await"
    /\ input' = NoInput
    /\ UNCHANGED <<game_state, frame_state, key_events>>

Next == NextFrame \/ MainMenuBody \/ DemoEscape \/ DemoTick

Spec == Init /\ [][Next]_vars

\* ---- the main loop while a jump runs undisturbed ---------------------------
\* The frames of a run in which, from the end of the tick that put state in
\* Jump until state leaves Jump, no key is active and every frame time is
\* positive; before and after, frames arrive as in IdleFrame.
JumpRuns == game_state = "Demo" /\ player.state = "Jump"

\* next_frame().await returns while no jump runs: a frame of NextFrame; of
\* these, the frames with a positive frame time are explored only when they
\* press J
IdleFrame ==
    /\ ~JumpRuns
    /\ NextFrame
    /\ input'.dt > 0 => is_key_pressed(input', "J")

\* next_frame().await returns while a jump runs: no key, dt > 0
QuietFrame ==
    /\ pc = "await"
    /\ JumpRuns
    /\ input' \in {i \in Inputs : /\ i.keys = {}
                                  /\ i.dt > 0
                                  /\ elapsed + i.dt <= MaxJumpElapsed}
    /\ pc' = "body"
    /\ frame_state' = game_state
    /\ UNCHANGED <<game_state, player, prev_anim, anims, elapsed, key_events>>

JumpNext == IdleFrame \/ QuietFrame \/ MainMenuBody \/ DemoEscape \/ DemoTick

\* the loop never stops by itself: a delivered frame is processed, and while
\* a jump runs the next frame is delivered
JumpSpec ==
    /\ Init
    /\ [][JumpNext]_vars
    /\ WF_vars(QuietFrame)
    /\ WF_vars(DemoTick)

TypeOK ==
    /\ game_state \in GameStates
    /\ player.state \in MoveStates
    /\ player.ground_mode \in {"Idle", "Walk", "Run"}
    /\ player.jump_phase \in JumpPhases
    /\ player.facing \in {-1, 1}
    /\ player.on_ground \in BOOLEAN
    /\ prev_anim \in AnimIds
    /\ pc \in {"await", "body", "exited"}
    /\ input \in Inputs
    /\ frame_state \in GameStates

\* =========================================================================
\* Properties
\* =========================================================================

\* a step that is a whole Demo tick (the Demo branch without ESC)
IsTick ==
    /\ pc = "body"
    /\ game_state = "Demo"
    /\ ~is_key_pressed(input, "Escape")
    /\ pc' = "await"

\* a state in which a Demo tick is about to run
TickReady ==
    /\ pc = "body"
    /\ game_state = "Demo"
    /\ ~is_key_pressed(input, "Escape")

\* gravity * dt in velocity units
GravityStep(dt) == (gravity * dt) \div 100

\* C1: pressing ESC in Demo returns the program to the main menu and it keeps
\* running: the program exits only in a frame that began in MainMenu (with
\* ESC pressed in that frame), never in a frame that began in Demo.
C1_ExitOnlyFromMenuFrame == pc = "exited" => frame_state = "MainMenu"

\* C2: a jump impulse is applied only when grounded.  In a tick with J
\* pressed while on_ground, vel.y is set to -900 at once (the tick's vel.y is
\* -900, cut to -405 when J is also released, plus one gravity step, unless
\* the tick lands).  In every other tick vel.y only follows from the old
\* vel.y (cut and gravity), so no second impulse is applied in the air,
\* whatever keys are pressed.
C2_JumpOnlyWhenGrounded ==
    [][IsTick =>
        LET jumps == is_key_pressed(input, "J") /\ player.on_ground
            cut == is_key_released(input, "JUp") /\ ~is_key_pressed(input, "D")
            g == GravityStep(input.dt)
        IN /\ (jumps /\ ~player'.on_ground) =>
                  player'.vel.y = (IF cut THEN -40500 ELSE -90000) + g
           /\ (~jumps /\ ~player'.on_ground) =>
                  \/ player'.vel.y = player.vel.y + g
                  \/ /\ is_key_released(input, "JUp")
                     /\ player'.vel.y = Scaled(player.vel.y, 45) + g
           /\ (~jumps /\ player.on_ground) => player'.vel.y = 0
    ]_vars

\* C2 witness: J is pressed while the player is airborne and rising
C2_Witness ==
    /\ TickReady
    /\ is_key_pressed(input, "J")
    /\ ~player.on_ground
    /\ player.vel.y < 0

\* C3: landing happens within one tick.  A tick that is airborne after key
\* handling and whose integrated pos.y is >= ground_y ends with
\* pos.y = ground_y, vel.y = 0 and on_ground, for every dt.
C3_LandingWithinOneTick ==
    [][IsTick =>
        LET a == AfterInput(World, input).p
            i == Integrated(World, input).p
        IN (~a.on_ground /\ i.pos.y >= ground_y) =>
              /\ player'.pos.y = ground_y
              /\ player'.vel.y = 0
              /\ player'.on_ground
    ]_vars

\* C3 witness: an airborne player whose tick integrates to more than 100 px
\* below the ground line
C3_Witness ==
    /\ TickReady
    /\ ~player.on_ground
    /\ player.pos.y < ground_y
    /\ Integrated(World, input).p.pos.y > ground_y + 100 * PX

\* C4: a Demo tick with dt = 0 and no key pressed, held or released leaves
\* every player field and every animation timer unchanged.
C4_ZeroDtTickIsNoOp ==
    [][(IsTick /\ input.dt = 0 /\ input.keys = {}) =>
        /\ player' = player
        /\ anims' = anims
    ]_vars

\* C5: every MainMenu -> Demo transition (ENTER) yields the player state of
\* program start, prev_anim = Idle and every animation timer at 0.
C5_EnterRebuildsPlayer ==
    [][(pc = "body" /\ game_state = "MainMenu" /\ is_key_pressed(input, "Enter")) =>
        /\ game_state' = "Demo"
        /\ player' = InitPlayer
        /\ prev_anim' = "Idle"
        /\ anims' = InitAnims
    ]_vars

\* C6: horizontal wrap is a teleport that fires only when the sprite has
\* fully left the screen: integrated pos.x > screen_w becomes -sprite_w,
\* integrated pos.x + sprite_w < 0 becomes screen_w, every other pos.x is
\* kept; never both; the wrap step leaves pos.y, vel, facing and state alone.
C6_WrapTeleport ==
    [][IsTick =>
        LET i == Integrated(World, input)
            x == i.p.pos.x
            r == Wrap(i)
        IN /\ x > screen_w => player'.pos.x = -sprite_w
           /\ x + sprite_w < 0 => player'.pos.x = screen_w
           /\ ~(x > screen_w) /\ ~(x + sprite_w < 0) => player'.pos.x = x
           /\ ~(x > screen_w /\ x + sprite_w < 0)
           /\ r.p.pos.y = i.p.pos.y
           /\ r.p.vel = i.p.vel
           /\ r.p.facing = i.p.facing
           /\ r.p.state = i.p.state
           /\ player'.vel.x = i.p.vel.x
           /\ player'.facing = i.p.facing
    ]_vars

\* C6 witness: the player has been repositioned to -sprite_w by a tick
C6_Witness ==
    /\ pc = "await"
    /\ game_state = "Demo"
    /\ player.pos.x = -sprite_w
    /\ player.vel.x > 0

\* C7: the player position stays within world bounds:
\* -sprite_w <= pos.x <= screen_w and pos.y <= ground_y.
C7_InWorldBounds ==
    /\ -sprite_w <= player.pos.x
    /\ player.pos.x <= screen_w
    /\ player.pos.y <= ground_y

\* C7 witness: the player has left the screen to the left and was put at the
\* right border
C7_Witness ==
    /\ pc = "await"
    /\ game_state = "Demo"
    /\ player.pos.x = screen_w
    /\ player.vel.x < 0

\* C8: gravity acts only while airborne and vertical velocity is zero on the
\* ground.  At the end of every tick on_ground holds iff pos.y = ground_y, and
\* on_ground implies vel.y = 0; a tick that starts grounded without a jump
\* start keeps pos.y and vel.y; a tick that starts airborne adds exactly
\* gravity * dt to the vel.y left by key handling, before integration.
C8_GravityOnlyAirborne ==
    [][IsTick =>
        LET a == AfterInput(World, input).p
            i == Integrated(World, input).p
            v == a.vel.y + GravityStep(input.dt)
        IN /\ player'.on_ground <=> player'.pos.y = ground_y
           /\ player'.on_ground => player'.vel.y = 0
           /\ (player.on_ground /\ ~is_key_pressed(input, "J")) =>
                 /\ player'.pos.y = player.pos.y
                 /\ player'.vel.y = player.vel.y
           /\ ~player.on_ground =>
                 /\ i.vel.y = v
                 /\ i.pos.y = player.pos.y + v * input.dt
                 /\ ~player'.on_ground =>
                       /\ player'.vel.y = v
                       /\ player'.pos.y = player.pos.y + v * input.dt
    ]_vars

\* C8 witness: an airborne player about to tick with a positive dt
C8_Witness ==
    /\ TickReady
    /\ ~player.on_ground
    /\ input.dt > 0
    /\ Integrated(World, input).p.pos.y < ground_y

\* the fixed speeds of the claim C9, in velocity units
C9_GroundSpeed(m) ==
    CASE m = "Idle" -> 0 [] m = "Walk" -> 25000 [] m = "Run" -> 45000

C9_AirSpeed(m) ==
    CASE m = "Idle" -> 12500 [] m = "Walk" -> 17500 [] m = "Run" -> 27000

\* C9 as stated: at the end of every Demo tick in which state is Idle, Walk
\* or Run, vel.x = facing * (0, 250, 450 by ground_mode); at the end of every
\* tick in which state is Jump, vel.x = facing * (125, 175, 270).
C9_Original ==
    [][IsTick =>
        /\ player'.state \in {"Idle", "Walk", "Run"} =>
              player'.vel.x = player'.facing * C9_GroundSpeed(player'.ground_mode)
        /\ player'.state = "Jump" =>
              player'.vel.x = player'.facing * C9_AirSpeed(player'.ground_mode)
    ]_vars

\* C9 amended: at the end of every Demo tick in which state was Idle, Walk or
\* Run after key handling, state = ground_mode and
\* vel.x = facing * (0, 250, 450 by ground_mode); at the end of every tick in
\* which state is Jump, vel.x = facing * (125, 175, 270).
C9_SpeedByState ==
    [][IsTick =>
        LET a == AfterInput(World, input).p IN
        /\ a.state \in {"Idle", "Walk", "Run"} =>
              /\ player'.state = player'.ground_mode
              /\ player'.vel.x = player'.facing * C9_GroundSpeed(player'.ground_mode)
        /\ player'.state = "Jump" =>
              player'.vel.x = player'.facing * C9_AirSpeed(player'.ground_mode)
    ]_vars

\* C9 witness: the player runs to the left after a tick
C9_Witness ==
    /\ pc = "await"
    /\ game_state = "Demo"
    /\ player.state = "Run"
    /\ player.facing = -1
    /\ player.vel.x = -45000

\* C10: in MainMenu a frame with neither ENTER nor ESC pressed leaves
\* game_state, the player, prev_anim and the animation timers unchanged
\* whatever other keys are active; game_state leaves MainMenu only on ENTER
\* (to Demo) and leaves Demo only on ESC.
C10_OtherInputsIgnored ==
    [][/\ (/\ pc = "body"
           /\ game_state = "MainMenu"
           /\ ~is_key_pressed(input, "Enter")
           /\ ~is_key_pressed(input, "Escape")) =>
              UNCHANGED <<game_state, player, prev_anim, anims>>
       /\ (game_state = "MainMenu" /\ game_state' # "MainMenu") =>
              /\ is_key_pressed(input, "Enter")
              /\ game_state' = "Demo"
       /\ (game_state = "Demo" /\ game_state' # "Demo") =>
              is_key_pressed(input, "Escape")
    ]_vars

\* C10 witness: a MainMenu frame with two other keys active
C10_Witness ==
    /\ pc = "body"
    /\ game_state = "MainMenu"
    /\ input.keys = {"Left", "J"}

\* the speed v (>= 0, velocity units) after one dash decay step, and the
\* number of decay steps a dash of speed v still takes until it is below
\* 80 px/s
C11_Decayed(v) == (v * 88) \div 100

RECURSIVE C11_DecaysLeft(_)
C11_DecaysLeft(v) ==
    IF C11_Decayed(v) < 8000 THEN 1 ELSE 1 + C11_DecaysLeft(C11_Decayed(v))

\* C11: dash is transient.  A tick with D pressed has state Dash and
\* vel.x = facing * 1200 after key handling.  A tick that starts in Dash is in
\* Dash (or, by J on the ground, in Jump) after key handling.  In every tick
\* whose state is Dash after key handling, for every dt: at most 22 decay
\* steps are left; |vel.x| becomes 0.88 |vel.x|; if that is >= 80 the tick ends
\* in Dash with one decay step less left, otherwise it ends with
\* state = ground_mode, and with vel.x = 0 if the player was on the ground.
C11_DashIsTransient ==
    [][IsTick =>
        LET a == AfterInput(World, input).p
            v == Abs(a.vel.x)
            d == C11_Decayed(v)
        IN /\ is_key_pressed(input, "D") =>
                 a.state = "Dash" /\ a.vel.x = a.facing * 120000
           /\ player.state = "Dash" => a.state \in {"Dash", "Jump"}
           /\ a.state = "Dash" =>
                 /\ C11_DecaysLeft(v) <= 22
                 /\ IF d >= 8000
                    THEN /\ player'.state = "Dash"
                         /\ player'.vel.x = (IF a.vel.x < 0 THEN -d ELSE d)
                         /\ C11_DecaysLeft(d) = C11_DecaysLeft(v) - 1
                    ELSE /\ player'.state = player'.ground_mode
                         /\ player'.state # "Dash"
                         /\ a.on_ground => player'.vel.x = 0
                         /\ ~a.on_ground => Abs(player'.vel.x) = d
    ]_vars

\* C11 witness: a dash on the ground about to decay out in a tick with a
\* positive dt and without any key
C11_Witness ==
    /\ TickReady
    /\ player.state = "Dash"
    /\ player.on_ground
    /\ input.keys = {}
    /\ input.dt > 0
    /\ C11_Decayed(Abs(player.vel.x)) < 8000

\* C12: Dash and Jump override the ground mode.  In every tick ground_mode
\* becomes the mode of the pressed key (R before W before I when several are
\* pressed) and is otherwise kept.  In a tick that starts in Jump or Dash the
\* I/W/R handling leaves state alone, and if the tick ends in another state,
\* the same tick without the I, W and R keys ends in another state as well.
C12_ModeKeysDoNotEndJumpOrDash ==
    [][IsTick =>
        LET m == IF is_key_pressed(input, "R") THEN "Run"
                 ELSE IF is_key_pressed(input, "W") THEN "Walk"
                 ELSE IF is_key_pressed(input, "I") THEN "Idle"
                 ELSE player.ground_mode
            plain == [input EXCEPT !.keys = @ \ {"I", "W", "R"}]
        IN /\ player'.ground_mode = m
           /\ player.state \in {"Jump", "Dash"} =>
                 /\ GroundModeKeys(Facing(World, input), input).p.state = player.state
                 /\ player'.state # player.state =>
                        Tick(World, plain).p.state # player.state
    ]_vars

\* C12 witness: W is pressed during a dash on the ground while the ground
\* mode is Idle
C12_Witness ==
    /\ TickReady
    /\ player.state = "Dash"
    /\ player.on_ground
    /\ player.ground_mode = "Idle"
    /\ is_key_pressed(input, "W")

\* C13: the ground-movement branch applies only on the ground.  In every
\* tick whose state is Idle, Walk or Run at the physics step (after key
\* handling) on_ground is true, and a tick that ends airborne ends in Jump or
\* Dash.
C13_GroundBranchOnlyOnGround ==
    [][IsTick =>
        LET a == AfterInput(World, input).p
        IN /\ a.state \in {"Idle", "Walk", "Run"} => a.on_ground
           /\ ~player'.on_ground => player'.state \in {"Jump", "Dash"}
    ]_vars

\* C14: every jump ends.  While a jump runs with no key and positive frame
\* times: an airborne jump leads to the player standing on the ground in state
\* Jump with jump_phase Landing; every jump leads to state = ground_mode on
\* the ground; and state leaves Jump in exactly the ticks that start in
\* jump_phase Landing with the landing animation's timer at or beyond its
\* total of 0.18 s, and then it is ground_mode.
C14_EveryJumpEnds ==
    /\ (JumpRuns /\ ~player.on_ground) ~>
           (JumpRuns /\ player.on_ground /\ player.jump_phase = "Landing")
    /\ JumpRuns ~>
           (player.state = player.ground_mode /\ player.on_ground)
    /\ [][(IsTick /\ player.state = "Jump" /\ input.keys = {}) =>
             IF player.on_ground /\ player.jump_phase = "Landing"
                                /\ anims["JumpLand"] >= 18
             THEN player'.state = player'.ground_mode /\ player'.on_ground
             ELSE player'.state = "Jump"
          ]_vars

\* C14 witness: a jump of four ticks of 0.25 s (jump start, one tick in the
\* air, landing, end of the landing animation) has returned to ground_mode
C14_Witness ==
    /\ pc = "await"
    /\ game_state = "Demo"
    /\ player.state = player.ground_mode
    /\ player.on_ground
    /\ prev_anim # "JumpLand"
    /\ anims["JumpLand"] = 25
    /\ anims["JumpTakeoff"] = 25
    /\ elapsed >= 100

\* C15: jump phases follow the order Takeoff -> Air -> Landing.  In a tick
\* that starts and ends in state Jump without J pressed, jump_phase is kept or
\* changes Takeoff -> Air, Takeoff -> Landing or Air -> Landing; and every
\* tick that ends in state Jump ends with jump_phase = Landing iff on_ground.
C15_JumpPhaseOrder ==
    [][IsTick =>
        /\ (/\ player.state = "Jump"
            /\ player'.state = "Jump"
            /\ ~is_key_pressed(input, "J")
            /\ player'.jump_phase # player.jump_phase) =>
               <<player.jump_phase, player'.jump_phase>> \in
                   {<<"Takeoff", "Air">>, <<"Takeoff", "Landing">>, <<"Air", "Landing">>}
        /\ player'.state = "Jump" =>
               (player'.jump_phase = "Landing" <=> player'.on_ground)
    ]_vars

\* C15 witness: a jump still in Takeoff whose tick lands
C15_Witness ==
    /\ TickReady
    /\ player.state = "Jump"
    /\ player.jump_phase = "Takeoff"
    /\ ~player.on_ground
    /\ input.keys = {}
    /\ Integrated(World, input).p.pos.y >= ground_y

====
